---- MODULE Spec2Model ----
(***************************************************************************)
(* audio-splitter: the segmentation engine of src/splitter.py.             *)
(*                                                                         *)
(* detect_splits is modelled statement group by statement group; pc names  *)
(* the next group to run.                                                  *)
(*                                                                         *)
(* Numbers.  Floating-point values are exact rationals [num, den] in       *)
(* lowest terms with den > 0, so sample / sr is a real division and not a  *)
(* renaming of the sample offset.  Rounding of IEEE doubles is not         *)
(* modelled.                                                               *)
(*                                                                         *)
(* Audio.  The sample values enter the pipeline only through the RMS       *)
(* amplitude and the spectral bandwidth of each analysis frame, so the     *)
(* buffer is carried as its length plus, per frame, the pair (rms, bw)     *)
(* that compute_rms and compute_spectral_bandwidth obtain for it.  Frames  *)
(* take their pairs independently of each other, which is exact for        *)
(* hop_length >= frame_length and admits every real buffer when frames     *)
(* overlap.  Sample rates, frame and hop lengths are scaled down: sr = 12  *)
(* with hop_length = 1 stands for a one-second smoothing window of 12      *)
(* frames.                                                                 *)
(***************************************************************************)
EXTENDS Integers, Sequences, FiniteSets, TLC

\* ------------------------------------------------------------------ bounds
\* Longest sample buffer handed to detect_splits.
MaxSamples == 6

\* Inputs detect_splits is called with.
SampleRates == {-1, 0, 1, 2, 12}
FrameLengths == {-1, 0, 1, 2}
HopLengths == {-1, 0, 1, 2}

\* Per-frame content: RMS amplitude (a power of ten, or 0 for an all-zero
\* frame) and spectral bandwidth.  An all-zero frame has total power 0 and
\* so bandwidth 0 (splitter.py:77-78).
FrameKinds ==
    { [rms |-> 0, bw |-> 0],       \* digital silence
      [rms |-> 10, bw |-> 1],      \* talk: quieter and narrow
      [rms |-> 100, bw |-> 4] }    \* band playing: loud and wide

\* ------------------------------------------------------- rational numbers
Abs(x) == IF x < 0 THEN -x ELSE x

Max(a, b) == IF a >= b THEN a ELSE b

Min(a, b) == IF a <= b THEN a ELSE b

RECURSIVE Gcd(_, _)
Gcd(a, b) == IF b = 0 THEN a ELSE Gcd(b, a % b)

\* The float nan: it propagates through arithmetic and every comparison with
\* it is false.
NaN == [num |-> 0, den |-> 0]

\* n / d in lowest terms with a positive denominator; nan when an operand
\* was nan (d = 0).
Rat(n, d) ==
    IF d = 0 THEN NaN
    ELSE LET s == IF d < 0 THEN -1 ELSE 1
             g == Gcd(Abs(n), Abs(d))
         IN  [num |-> (s * n) \div g, den |-> (s * d) \div g]

RatInt(n) == [num |-> n, den |-> 1]

RatAdd(a, b) == Rat(a.num * b.den + b.num * a.den, a.den * b.den)

RatSub(a, b) == Rat(a.num * b.den - b.num * a.den, a.den * b.den)

RatMul(a, b) == Rat(a.num * b.num, a.den * b.den)

RatLt(a, b) == a.num * b.den < b.num * a.den

RatGe(a, b) == ~RatLt(a, b)

\* int(x) of Python for x = n / d, d # 0: truncation towards zero.
TruncDiv(n, d) ==
    LET q == Abs(n) \div Abs(d)
    IN  IF (n < 0) = (d < 0) THEN q ELSE -q

\* Python's a // b for b # 0 (floor division).
FloorDiv(a, b) == IF b > 0 THEN a \div b ELSE (-a) \div (-b)

\* Configuration values in seconds (floats in the code).
MinSilenceDurations == {RatInt(0), RatInt(2)}
MinSongDurations == {RatInt(0), RatInt(3)}

\* Sum of a sequence, added up by halves.
RECURSIVE SumRat(_)
SumRat(s) ==
    IF s = <<>> THEN RatInt(0)
    ELSE IF Len(s) = 1 THEN s[1]
    ELSE LET half == Len(s) \div 2
         IN  RatAdd(SumRat(SubSeq(s, 1, half)), SumRat(SubSeq(s, half + 1, Len(s))))

\* np.mean of a non-empty sequence.
Mean(s) == RatMul(SumRat(s), Rat(1, Len(s)))

\* Order np.sort puts two values in: ascending, nan last.
Before(a, b) == a # NaN /\ (b = NaN \/ RatLt(a, b))

\* Longest sequence sorted by insertion alone.
SortRun == 16

\* Insertion of x into the ascending sequence s.
RECURSIVE Insert(_, _)
Insert(x, s) ==
    IF s = <<>> THEN <<x>>
    ELSE IF Before(Head(s), x) THEN <<Head(s)>> \o Insert(x, Tail(s))
    ELSE <<x>> \o s

RECURSIVE InsertionSort(_)
InsertionSort(s) ==
    IF s = <<>> THEN <<>> ELSE Insert(Head(s), InsertionSort(Tail(s)))

\* Merge of the ascending sequences a and b: a[i] goes behind the values of b
\* that precede it, and b fills the places left.
MergeSorted(left, right) ==
    CHOOSE out \in
        { [k \in 1..(Len(a) + Len(b)) |->
              IF \E i \in 1..Len(a) : place[i] = k
              THEN a[CHOOSE i \in 1..Len(a) : place[i] = k]
              ELSE b[k - Cardinality({i \in 1..Len(a) : place[i] < k})]] :
          <<a, b, place>> \in
              { <<x, y, [i \in 1..Len(x) |->
                           i + Cardinality({j \in 1..Len(y) : Before(y[j], x[i])})]>> :
                x \in {left}, y \in {right} } } : TRUE

\* np.sort: ascending order, nan last.
RECURSIVE Sort(_)
Sort(s) ==
    IF Len(s) <= SortRun THEN InsertionSort(s)
    ELSE LET half == Len(s) \div 2
         IN  MergeSorted(Sort(SubSeq(s, 1, half)), Sort(SubSeq(s, half + 1, Len(s))))

\* --------------------------------------------------------- feature stages
\* Variant of NFrames that leaves the frame length out.
NFramesNoFrameLength(n, frameLength, hopLength) == 1 + FloorDiv(n, hopLength)

\* compute_rms / compute_spectral_bandwidth: the frame count.
NFrames(n, frameLength, hopLength) == 1 + FloorDiv(n - frameLength, hopLength)

\* Number of elements of audio[start:stop] for a buffer of n samples: a
\* negative index counts from the end, and both ends are clipped to the buffer.
SliceLen(n, start, stop) ==
    LET norm(k) == IF k < 0 THEN Max(k + n, 0) ELSE Min(k, n)
    IN  Max(norm(stop) - norm(start), 0)

\* Samples frame j (0-based) reads: audio[start:start + frame_length] with
\* start = j * hop_length.
FrameStart(j, hopLength) == j * hopLength

FrameSamples(n, j, frameLength, hopLength) ==
    SliceLen(n, FrameStart(j, hopLength), FrameStart(j, hopLength) + frameLength)

\* The configuration the frame arithmetic is written for.
WellFormed(frameLength, hopLength) == frameLength > 0 /\ hopLength > 0

\* Frames a buffer of n samples is described by.
FrameCount(n, frameLength, hopLength) ==
    IF hopLength = 0 THEN 0 ELSE Max(0, NFrames(n, frameLength, hopLength))

\* RMS of an empty frame: np.mean of no values is nan.
NanAmplitude == -1

\* log10 of the amplitude levels used by FrameKinds.
Log10(a) == CASE a = 1 -> 0 [] a = 10 -> 1 [] a = 100 -> 2 [] a = 1000 -> 3

MaxOf(s) == CHOOSE x \in {s[j] : j \in 1..Len(s)} : \A j \in 1..Len(s) : s[j] <= x

HasNan(amplitude) == \E j \in 1..Len(amplitude) : amplitude[j] = NanAmplitude

\* Variant of amplitude_to_db without the `ref == 0` branch: 0 / 0 is nan.
amplitude_to_db_unguarded(amplitude) ==
    LET ref == MaxOf(amplitude)
    IN  IF HasNan(amplitude) \/ ref = 0
        THEN [j \in 1..Len(amplitude) |-> NaN]
        ELSE [j \in 1..Len(amplitude) |->
                 IF amplitude[j] = 0 THEN RatInt(-200)
                 ELSE RatInt(20 * (Log10(amplitude[j]) - Log10(ref)))]

\* amplitude_to_db on a non-empty amplitude sequence.  A zero amplitude under
\* a non-zero reference is clipped to 1e-10, that is -200 dB.  A nan
\* amplitude makes the reference, and so every value, nan.
amplitude_to_db(amplitude) ==
    LET ref == MaxOf(amplitude)
    IN  IF HasNan(amplitude)
        THEN [j \in 1..Len(amplitude) |-> NaN]
        ELSE IF ref = 0
        THEN [j \in 1..Len(amplitude) |-> RatInt(-80)]
        ELSE [j \in 1..Len(amplitude) |->
                 IF amplitude[j] = 0 THEN RatInt(-200)
                 ELSE RatInt(20 * (Log10(amplitude[j]) - Log10(ref)))]

\* np.convolve(data, ones(w) / w, mode='same'): the centred part, of length
\* max(len(data), w), of the full convolution.
ConvolveSame(data, w) ==
    LET m == Len(data)
        off == (Min(m, w) - 1) \div 2
        \* full[n] adds data[i] (0-based) for 0 <= n - i <= w - 1
        full(n) == SumRat(SubSeq(data, Max(1, n - w + 2), Min(m, n + 1)))
    IN  [k \in 1..Max(m, w) |-> RatMul(full(k - 1 + off), Rat(1, w))]

smooth(data, window_size) ==
    IF window_size <= 1 THEN data ELSE ConvolveSame(data, window_size)

\* Variant of LoudMean that averages the top half.
LoudMeanTopHalf(values) ==
    LET sorted == Sort(values)
        from == Len(sorted) \div 2
    IN  Mean(SubSeq(sorted, from + 1, Len(sorted)))

\* Mean of the top quarter of the sorted values: sorted[int(len * 0.75):].
LoudMean(values) ==
    LET sorted == Sort(values)
        from == (3 * Len(sorted)) \div 4
    IN  Mean(SubSeq(sorted, from + 1, Len(sorted)))

\* ------------------------------------------------------------------ state
VARIABLES
    pc,                    \* statement group detect_splits runs next
    audio,                 \* [len, frames]: the caller's sample buffer
    sr,
    min_silence_duration,
    min_song_duration,
    frame_length,
    hop_length,
    smooth_frames,
    rms_db,
    rms_db_smooth,
    bw,
    bw_smooth,
    loud_mean,
    energy_thresh,
    bw_loud_mean,
    bw_thresh,
    is_not_playing,
    i,                     \* loop index of the frame scan / the merge loop
    in_quiet,
    quiet_start,
    quiet_regions,
    split_samples,
    segments,
    merged,
    raised,                \* exception class that ended the call, or "none"
    stdout,                \* lines printed so far
    previous,              \* <<list>> returned by an earlier call, or <<>>
    disk,                  \* session id -> (file name -> samples held)
    session_id,            \* session of the /api/split request being served
    written,               \* segments split_and_save has written so far
    response,              \* the HTTP response sent last
    oauth_tokens,          \* state -> token_data
    stream,                \* the event_stream generator of an upload
    events                 \* events that generator has yielded

vars == <<pc, audio, sr, min_silence_duration, min_song_duration, frame_length,
          hop_length, smooth_frames, rms_db, rms_db_smooth, bw, bw_smooth,
          loud_mean, energy_thresh, bw_loud_mean, bw_thresh, is_not_playing, i,
          in_quiet, quiet_start, quiet_regions, split_samples, segments, merged,
          raised, stdout, previous, disk, session_id, written, response,
          oauth_tokens, stream, events>>

inputs == <<audio, sr, min_silence_duration, min_song_duration, frame_length,
            hop_length>>

series == <<rms_db, rms_db_smooth, bw, bw_smooth>>

levels == <<loud_mean, energy_thresh, bw_loud_mean, bw_thresh>>

features == <<smooth_frames, series, levels, is_not_playing>>

scan == <<i, in_quiet, quiet_start, quiet_regions>>

\* State of the web application around the engine.
app == <<disk, session_id, written, response, oauth_tokens, stream, events>>

\* No file names, no keys.
Nothing == [x \in {} |-> 0]

\* No request served, no upload under way.
NoResponse == [endpoint |-> "none"]

NoStream == [pc |-> "none"]

NoRat == RatInt(0)

Init ==
    /\ pc = "idle"
    /\ audio = [len |-> 0, frames |-> <<>>]
    /\ sr = 1
    /\ min_silence_duration = RatInt(0)
    /\ min_song_duration = RatInt(0)
    /\ frame_length = 1
    /\ hop_length = 1
    /\ smooth_frames = 1
    /\ rms_db = <<>>
    /\ rms_db_smooth = <<>>
    /\ bw = <<>>
    /\ bw_smooth = <<>>
    /\ loud_mean = NoRat
    /\ energy_thresh = NoRat
    /\ bw_loud_mean = NoRat
    /\ bw_thresh = NoRat
    /\ is_not_playing = <<>>
    /\ i = 0
    /\ in_quiet = FALSE
    /\ quiet_start = 0
    /\ quiet_regions = <<>>
    /\ split_samples = <<>>
    /\ segments = <<>>
    /\ merged = <<>>
    /\ raised = "none"
    /\ stdout = <<>>
    /\ previous = <<>>
    /\ disk = Nothing
    /\ session_id = ""
    /\ written = 0
    /\ response = NoResponse
    /\ oauth_tokens = Nothing
    /\ stream = NoStream
    /\ events = <<>>

\* A caller invokes detect_splits(audio, sr, ...) with a buffer and a
\* configuration drawn from the given sets.  Under a malformed configuration
\* the buffer has the same content throughout.
CallWith(lengths, rates, frameLengths, hopLengths) ==
    /\ pc = "idle"
    /\ \E n \in lengths, fl \in frameLengths, hl \in hopLengths :
         \E fr \in [1..FrameCount(n, fl, hl) -> FrameKinds] :
            /\ WellFormed(fl, hl) \/ \A j \in DOMAIN fr : fr[j] = fr[1]
            /\ audio' = [len |-> n, frames |-> fr]
            /\ frame_length' = fl
            /\ hop_length' = hl
    /\ sr' \in rates
    /\ min_silence_duration' \in MinSilenceDurations
    /\ min_song_duration' \in MinSongDurations
    /\ pc' = "frame_to_sec"
    /\ UNCHANGED <<features, scan, split_samples, segments, merged, raised,
                   stdout, previous, app>>

Call == CallWith(0..MaxSamples, SampleRates, FrameLengths, HopLengths)

Raise(exc) ==
    /\ pc' = "raised"
    /\ raised' = exc

\* Variant of SmoothFrames that rounds to the nearest integer.
SmoothFramesRounded(rate, hopLength) ==
    Max(1, FloorDiv(2 * rate + hopLength, 2 * hopLength))

\* max(1, int(1.0 / frame_to_sec)) with frame_to_sec = hop_length / sr.
SmoothFrames(rate, hopLength) == Max(1, TruncDiv(rate, hopLength))

\* frame_to_sec = hop_length / sr; smooth_frames = max(1, int(1.0 / frame_to_sec)).
\* sr = 0 divides by zero, and so does frame_to_sec = 0.0 (hop_length = 0).
ComputeSmoothFrames ==
    /\ pc = "frame_to_sec"
    /\ IF sr = 0 \/ hop_length = 0
       THEN /\ Raise("ZeroDivisionError")
            /\ UNCHANGED smooth_frames
       ELSE /\ smooth_frames' = SmoothFrames(sr, hop_length)
            /\ pc' = "rms"
            /\ UNCHANGED raised
    /\ UNCHANGED <<inputs, series, levels, is_not_playing, scan, split_samples,
                   segments, merged, stdout, previous, app>>

\* compute_rms: np.empty(n_frames) refuses a negative frame count.
compute_rms_raises(a, frameLength, hopLength) ==
    NFrames(a.len, frameLength, hopLength) < 0

\* One value per frame; a frame that reads no sample has RMS nan.
compute_rms(a, frameLength, hopLength) ==
    [j \in 1..NFrames(a.len, frameLength, hopLength) |->
        IF FrameSamples(a.len, j - 1, frameLength, hopLength) = 0
        THEN NanAmplitude
        ELSE a.frames[j].rms]

\* amplitude_to_db: np.max refuses an empty array.
amplitude_to_db_raises(amplitude) == Len(amplitude) = 0

\* Length of the elementwise product of arrays of lengths a and b, or -1
\* when the shapes cannot be broadcast together.
Broadcast(a, b) ==
    IF a = b THEN a ELSE IF a = 1 THEN b ELSE IF b = 1 THEN a ELSE -1

\* Length of frame * np.hanning(frame_length) for frame j (0-based);
\* np.hanning(M) is empty for M < 1.
WindowedLen(n, j, frameLength, hopLength) ==
    Broadcast(FrameSamples(n, j, frameLength, hopLength), Max(frameLength, 0))

\* Exception compute_spectral_bandwidth ends with, or "none":
\* np.fft.rfftfreq(0, ...) divides by zero; the window product needs
\* matching shapes and np.fft.rfft at least one point.
compute_spectral_bandwidth_raises(a, rate, frameLength, hopLength) ==
    IF frameLength = 0 THEN "ZeroDivisionError"
    ELSE IF \E j \in 1..NFrames(a.len, frameLength, hopLength) :
               WindowedLen(a.len, j - 1, frameLength, hopLength) < 1
    THEN "ValueError"
    ELSE "none"

\* total_power < 1e-20: the frame's spectrum carries no power.
NoPower(frame) == frame.rms = 0

\* sqrt(sum((freqs - centroid)^2 * power) / total_power); 0 / 0 is nan.
Spread(frame) == IF frame.rms = 0 THEN NaN ELSE RatInt(frame.bw)

compute_spectral_bandwidth(a, rate, frameLength, hopLength) ==
    [j \in 1..NFrames(a.len, frameLength, hopLength) |->
        IF NoPower(a.frames[j]) THEN RatInt(0) ELSE Spread(a.frames[j])]

\* Variant of EnergyFeature whose compute_rms squares each frame in place
\* (`frame **= 2` on the slice, a view of the caller's array).
EnergyFeatureInPlace ==
    /\ pc = "rms"
    /\ IF \/ compute_rms_raises(audio, frame_length, hop_length)
          \/ amplitude_to_db_raises(compute_rms(audio, frame_length, hop_length))
       THEN /\ Raise("ValueError")
            /\ UNCHANGED <<audio, rms_db, rms_db_smooth>>
       ELSE /\ rms_db' = amplitude_to_db(compute_rms(audio, frame_length, hop_length))
            /\ rms_db_smooth' = smooth(rms_db', smooth_frames)
            /\ audio' = [audio EXCEPT !.frames =
                            [j \in 1..Len(audio.frames) |->
                                [audio.frames[j] EXCEPT !.rms = @ * @]]]
            /\ pc' = "bw"
            /\ UNCHANGED raised
    /\ UNCHANGED <<sr, min_silence_duration, min_song_duration, frame_length,
                   hop_length, smooth_frames, bw, bw_smooth, levels,
                   is_not_playing, scan, split_samples, segments, merged, stdout,
                   previous, app>>

\* rms = compute_rms(...); rms_db = amplitude_to_db(rms);
\* rms_db_smooth = smooth(rms_db, smooth_frames)
EnergyFeature ==
    /\ pc = "rms"
    /\ IF \/ compute_rms_raises(audio, frame_length, hop_length)
          \/ amplitude_to_db_raises(compute_rms(audio, frame_length, hop_length))
       THEN /\ Raise("ValueError")
            /\ UNCHANGED <<rms_db, rms_db_smooth>>
       ELSE /\ rms_db' = amplitude_to_db(compute_rms(audio, frame_length, hop_length))
            /\ rms_db_smooth' = smooth(rms_db', smooth_frames)
            /\ pc' = "bw"
            /\ UNCHANGED raised
    /\ UNCHANGED <<inputs, smooth_frames, bw, bw_smooth, levels, is_not_playing,
                   scan, split_samples, segments, merged, stdout,
                   previous, app>>

\* bw = compute_spectral_bandwidth(...); bw_smooth = smooth(bw, smooth_frames)
BandwidthFeature ==
    /\ pc = "bw"
    /\ LET exc == compute_spectral_bandwidth_raises(audio, sr, frame_length,
                                                    hop_length)
       IN  IF exc # "none"
           THEN /\ Raise(exc)
                /\ UNCHANGED <<bw, bw_smooth>>
           ELSE /\ bw' = compute_spectral_bandwidth(audio, sr, frame_length,
                                                    hop_length)
                /\ bw_smooth' = smooth(bw', smooth_frames)
                /\ pc' = "thresholds"
                /\ UNCHANGED raised
    /\ UNCHANGED <<inputs, smooth_frames, rms_db, rms_db_smooth, levels,
                   is_not_playing, scan, split_samples, segments, merged, stdout,
                   previous, app>>

EnergyMarginDb == 15

\* round(x) to the nearest integer, ties to the even one.
RoundHalfEven(x) ==
    LET lo == FloorDiv(x.num, x.den)
        twice == 2 * (x.num - lo * x.den)
    IN  IF twice < x.den THEN lo
        ELSE IF twice > x.den THEN lo + 1
        ELSE IF lo % 2 = 0 THEN lo ELSE lo + 1

Pow10(digits) == IF digits = 0 THEN 1 ELSE 10

\* Variant of FormatFixed that cuts the further decimals off.
FormatFixedTruncated(x, digits) ==
    IF x = NaN THEN NaN
    ELSE Rat(TruncDiv(x.num * Pow10(digits), x.den), Pow10(digits))

\* f"{x:.1f}" and f"{x:.0f}": x rounded to `digits` (0 or 1) decimals.
FormatFixed(x, digits) ==
    IF x = NaN THEN NaN
    ELSE Rat(RoundHalfEven(RatMul(x, RatInt(Pow10(digits)))), Pow10(digits))

\* The two lines printed after the thresholds are chosen.
ThresholdLines(energyThresh, loudMean, bwThresh, bwLoudMean) ==
    << [line |-> "energy", thresh |-> FormatFixed(energyThresh, 1),
        mean |-> FormatFixed(loudMean, 1)],
       [line |-> "bandwidth", thresh |-> FormatFixed(bwThresh, 0),
        mean |-> FormatFixed(bwLoudMean, 0)] >>

\* loud_mean = mean of the top quarter; energy_thresh = loud_mean - 15;
\* bw_thresh = bw_loud_mean * 0.4; both pairs are printed.
Thresholds ==
    /\ pc = "thresholds"
    /\ loud_mean' = LoudMean(rms_db_smooth)
    /\ energy_thresh' = RatSub(loud_mean', RatInt(EnergyMarginDb))
    /\ bw_loud_mean' = LoudMean(bw_smooth)
    /\ bw_thresh' = RatMul(bw_loud_mean', Rat(2, 5))
    /\ stdout' = stdout \o ThresholdLines(energy_thresh', loud_mean', bw_thresh',
                                          bw_loud_mean')
    /\ pc' = "classify"
    /\ UNCHANGED <<inputs, smooth_frames, series, is_not_playing, scan,
                   split_samples, segments, merged, raised, previous, app>>

\* Variant of Classify whose comparisons include equality.
ClassifyNonStrict ==
    /\ pc = "classify"
    /\ is_not_playing' =
          [j \in 1..Len(rms_db_smooth) |->
              \/ ~RatLt(energy_thresh, rms_db_smooth[j])
              \/ ~RatLt(bw_thresh, bw_smooth[j])]
    /\ quiet_regions' = <<>>
    /\ in_quiet' = FALSE
    /\ quiet_start' = 0
    /\ i' = 0
    /\ pc' = "scan"
    /\ UNCHANGED <<inputs, smooth_frames, series, levels, split_samples, segments,
                   merged, raised, stdout, previous, app>>

\* Variant of Classify that goes on with the region list it finds.
ClassifyKeepingRegions ==
    /\ pc = "classify"
    /\ is_not_playing' =
          [j \in 1..Len(rms_db_smooth) |->
              \/ RatLt(rms_db_smooth[j], energy_thresh)
              \/ RatLt(bw_smooth[j], bw_thresh)]
    /\ in_quiet' = FALSE
    /\ quiet_start' = 0
    /\ i' = 0
    /\ pc' = "scan"
    /\ UNCHANGED <<inputs, smooth_frames, series, levels, quiet_regions,
                   split_samples, segments, merged, raised, stdout,
                   previous, app>>

\* is_not_playing = (rms_db_smooth < energy_thresh) | (bw_smooth < bw_thresh);
\* quiet_regions = []; in_quiet = False; quiet_start = 0
Classify ==
    /\ pc = "classify"
    /\ is_not_playing' =
          [j \in 1..Len(rms_db_smooth) |->
              \/ RatLt(rms_db_smooth[j], energy_thresh)
              \/ RatLt(bw_smooth[j], bw_thresh)]
    /\ quiet_regions' = <<>>
    /\ in_quiet' = FALSE
    /\ quiet_start' = 0
    /\ i' = 0
    /\ pc' = "scan"
    /\ UNCHANGED <<inputs, smooth_frames, series, levels, split_samples, segments,
                   merged, raised, stdout, previous, app>>

\* duration = (end - start) * frame_to_sec, kept when >= min_silence_duration.
RunDuration(start, end) == RatMul(RatInt(end - start), Rat(hop_length, sr))

\* Variant of Retained that compares the run's frame count, not its duration.
RetainedInFrames(start, end) == RatGe(RatInt(end - start), min_silence_duration)

\* Variant of Retained with a strict comparison.
RetainedStrict(start, end) == RatLt(min_silence_duration, RunDuration(start, end))

Retained(start, end) == RatGe(RunDuration(start, end), min_silence_duration)

\* Variant of ScanFrame that closes a run behind the playing frame that ends it.
ScanFrameInclusive ==
    /\ pc = "scan"
    /\ i < Len(is_not_playing)
    /\ LET q == is_not_playing[i + 1]
       IN  IF q /\ ~in_quiet
           THEN /\ quiet_start' = i
                /\ in_quiet' = TRUE
                /\ UNCHANGED quiet_regions
           ELSE IF ~q /\ in_quiet
           THEN /\ quiet_regions' =
                     IF Retained(quiet_start, i + 1)
                     THEN Append(quiet_regions, <<quiet_start, i + 1>>)
                     ELSE quiet_regions
                /\ in_quiet' = FALSE
                /\ UNCHANGED quiet_start
           ELSE UNCHANGED <<quiet_start, in_quiet, quiet_regions>>
    /\ i' = i + 1
    /\ UNCHANGED <<pc, inputs, features, split_samples, segments, merged, raised,
                   stdout, previous, app>>

\* One iteration of `for i, q in enumerate(is_not_playing)`; i is 0-based.
ScanFrame ==
    /\ pc = "scan"
    /\ i < Len(is_not_playing)
    /\ LET q == is_not_playing[i + 1]
       IN  IF q /\ ~in_quiet
           THEN /\ quiet_start' = i
                /\ in_quiet' = TRUE
                /\ UNCHANGED quiet_regions
           ELSE IF ~q /\ in_quiet
           THEN /\ quiet_regions' =
                     IF Retained(quiet_start, i)
                     THEN Append(quiet_regions, <<quiet_start, i>>)
                     ELSE quiet_regions
                /\ in_quiet' = FALSE
                /\ UNCHANGED quiet_start
           ELSE UNCHANGED <<quiet_start, in_quiet, quiet_regions>>
    /\ i' = i + 1
    /\ UNCHANGED <<pc, inputs, features, split_samples, segments, merged, raised,
                   stdout, previous, app>>

\* The lines printed after the scan: the number of retained regions, then
\* one line per region with its start, end and length in seconds.
RegionLines(regions, hopLength, rate) ==
    << [line |-> "count", count |-> Len(regions)] >> \o
    [j \in 1..Len(regions) |->
        LET t_start == RatMul(RatInt(regions[j][1]), Rat(hopLength, rate))
            t_end == RatMul(RatInt(regions[j][2]), Rat(hopLength, rate))
        IN  [line |-> "region", number |-> j,
             t_start |-> FormatFixed(t_start, 1),
             t_end |-> FormatFixed(t_end, 1),
             length |-> FormatFixed(RatSub(t_end, t_start), 1)]]

\* After the loop: a run still open is closed at len(is_not_playing); the
\* retained regions are printed.
Flush ==
    /\ pc = "scan"
    /\ i = Len(is_not_playing)
    /\ quiet_regions' =
          IF in_quiet /\ Retained(quiet_start, Len(is_not_playing))
          THEN Append(quiet_regions, <<quiet_start, Len(is_not_playing)>>)
          ELSE quiet_regions
    /\ stdout' = stdout \o RegionLines(quiet_regions', hop_length, sr)
    /\ pc' = "split"
    /\ UNCHANGED <<inputs, features, i, in_quiet, quiet_start, split_samples,
                   segments, merged, raised, previous, app>>

\* Variant of SplitSample with the midpoint frame rounded up.
SplitSampleCeil(region, hopLength) ==
    FloorDiv(region[1] + region[2] + 1, 2) * hopLength

\* ((s + e) // 2) * hop_length
SplitSample(region, hopLength) ==
    FloorDiv(region[1] + region[2], 2) * hopLength

SplitPoints ==
    /\ pc = "split"
    /\ split_samples' =
          [j \in 1..Len(quiet_regions) |-> SplitSample(quiet_regions[j], hop_length)]
    /\ pc' = "segments"
    /\ UNCHANGED <<inputs, features, scan, segments, merged, raised, stdout,
                   previous, app>>

Segment(index, start_sec, end_sec, duration_sec) ==
    [index |-> index, start_sec |-> start_sec, end_sec |-> end_sec,
     duration_sec |-> duration_sec]

Boundaries(splits, total_samples) == <<0>> \o splits \o <<total_samples>>

\* Variant of ProvisionalSegments that divides with `//`.
ProvisionalSegmentsFloorDiv(boundaries, rate) ==
    [j \in 1..(Len(boundaries) - 1) |->
        LET start_sec == RatInt(FloorDiv(boundaries[j], rate))
            end_sec == RatInt(FloorDiv(boundaries[j + 1], rate))
        IN  Segment(j - 1, start_sec, end_sec, RatSub(end_sec, start_sec))]

\* One provisional segment per consecutive boundary pair.
ProvisionalSegments(boundaries, rate) ==
    [j \in 1..(Len(boundaries) - 1) |->
        LET start_sec == Rat(boundaries[j], rate)
            end_sec == Rat(boundaries[j + 1], rate)
        IN  Segment(j - 1, start_sec, end_sec, RatSub(end_sec, start_sec))]

BuildSegments ==
    /\ pc = "segments"
    /\ segments' = ProvisionalSegments(Boundaries(split_samples, audio.len), sr)
    /\ merged' = <<>>
    /\ i' = 0
    /\ pc' = "merge"
    /\ UNCHANGED <<inputs, features, in_quiet, quiet_start, quiet_regions,
                   split_samples, raised, stdout, previous, app>>

\* if merged and seg.duration_sec < min_song_duration
Absorbs(out, seg, minSong) ==
    out # <<>> /\ RatLt(seg.duration_sec, minSong)

\* Variant of MergeInto that keeps the absorbed segment's own duration.
MergeIntoStaleDuration(out, seg, minSong) ==
    IF Absorbs(out, seg, minSong)
    THEN LET prev == out[Len(out)]
         IN  [out EXCEPT ![Len(out)] =
                 Segment(prev.index, prev.start_sec, seg.end_sec, seg.duration_sec)]
    ELSE Append(out, seg)

\* Variant of MergeInto that judges a segment by the duration the accepted
\* segment would have with it.
MergeIntoJudgingCombined(out, seg, minSong) ==
    IF out # <<>> /\ RatLt(RatSub(seg.end_sec, out[Len(out)].start_sec), minSong)
    THEN LET prev == out[Len(out)]
         IN  [out EXCEPT ![Len(out)] =
                 Segment(prev.index, prev.start_sec, seg.end_sec,
                         RatSub(seg.end_sec, prev.start_sec))]
    ELSE Append(out, seg)

\* The body of `for seg in segments`.
MergeInto(out, seg, minSong) ==
    IF Absorbs(out, seg, minSong)
    THEN LET prev == out[Len(out)]
         IN  [out EXCEPT ![Len(out)] =
                 Segment(prev.index, prev.start_sec, seg.end_sec,
                         RatSub(seg.end_sec, prev.start_sec))]
    ELSE Append(out, seg)

MergeStep ==
    /\ pc = "merge"
    /\ i < Len(segments)
    /\ merged' = MergeInto(merged, segments[i + 1], min_song_duration)
    /\ i' = i + 1
    /\ UNCHANGED <<pc, inputs, features, in_quiet, quiet_start, quiet_regions,
                   split_samples, segments, raised, stdout, previous, app>>

\* Variant of Reindexed that leaves the provisional indices in place.
ReindexedStale(out) == out

\* for i, seg in enumerate(merged): seg.index = i; return merged
Reindexed(out) == [j \in 1..Len(out) |-> [out[j] EXCEPT !.index = j - 1]]

Return ==
    /\ pc = "merge"
    /\ i = Len(segments)
    /\ merged' = Reindexed(merged)
    /\ pc' = "done"
    /\ UNCHANGED <<inputs, features, scan, split_samples, segments, raised,
                   stdout, previous, app>>

Next ==
    \/ Call
    \/ ComputeSmoothFrames
    \/ EnergyFeature
    \/ BandwidthFeature
    \/ Thresholds
    \/ Classify
    \/ ScanFrame
    \/ Flush
    \/ SplitPoints
    \/ BuildSegments
    \/ MergeStep
    \/ Return

Spec == Init /\ [][Next]_vars

\* ------------------------------------------------------ smoothing window
\* Highest sample rate of the calls that exercise the smoothing window.
MaxWindowRate == 8

\* Buffer length of those calls.
WindowSamples == 4

\* Calls with every sample rate up to MaxWindowRate and hop lengths 1..3 on a
\* buffer of WindowSamples samples.
WindowCall == CallWith({WindowSamples}, 1..MaxWindowRate, {1}, {1, 2, 3})

WindowNext ==
    \/ WindowCall
    \/ ComputeSmoothFrames
    \/ EnergyFeature
    \/ BandwidthFeature

WindowSpec == Init /\ [][WindowNext]_vars

\* ------------------------------------------------- the same call, repeated
\* Sample rates of the calls that are repeated.
RepeatSampleRates == {2, 12}

\* First call on a buffer one sample short of the longest, under a
\* well-formed configuration.
FirstCall == CallWith(0..(MaxSamples - 1), RepeatSampleRates, {1, 2}, {1, 2})

\* The caller keeps the returned list and invokes detect_splits again with
\* the same buffer, sample rate and configuration.  What the first call left
\* behind is still there.
RepeatCall ==
    /\ pc = "done"
    /\ previous = <<>>
    /\ previous' = <<merged>>
    /\ pc' = "frame_to_sec"
    /\ UNCHANGED <<inputs, features, scan, split_samples, segments, merged,
                   raised, stdout, app>>

RepeatNext ==
    \/ FirstCall
    \/ RepeatCall
    \/ ComputeSmoothFrames
    \/ EnergyFeature
    \/ BandwidthFeature
    \/ Thresholds
    \/ Classify
    \/ ScanFrame
    \/ Flush
    \/ SplitPoints
    \/ BuildSegments
    \/ MergeStep
    \/ Return

RepeatSpec == Init /\ [][RepeatNext]_vars

\* ------------------------------------------- silent buffer, default settings
\* All-zero buffers handed in under the defaults have 1..MaxSilentFrames
\* frames, or ScenarioFrames frames (60 s at 44100 Hz).
MaxSilentFrames == 112
ScenarioFrames == 1291

\* Defaults of detect_splits.
DefaultMinSilenceDuration == 5
DefaultMinSongDuration == 30
DefaultFrameLength == 4096
DefaultHopLength == 2048

\* Sample rates of the silent recordings.
SilentSampleRates == {8000, 44100}

\* detect_splits(audio, sr) on an all-zero buffer, every keyword left at its
\* default.
SilentCallDefaults ==
    /\ pc = "idle"
    /\ \E m \in (1..MaxSilentFrames) \cup {ScenarioFrames} :
          audio' = [len |-> DefaultFrameLength + (m - 1) * DefaultHopLength,
                    frames |-> [j \in 1..m |-> [rms |-> 0, bw |-> 0]]]
    /\ sr' \in SilentSampleRates
    /\ min_silence_duration' = RatInt(DefaultMinSilenceDuration)
    /\ min_song_duration' = RatInt(DefaultMinSongDuration)
    /\ frame_length' = DefaultFrameLength
    /\ hop_length' = DefaultHopLength
    /\ pc' = "frame_to_sec"
    /\ UNCHANGED <<features, scan, split_samples, segments, merged, raised,
                   stdout, previous, app>>

SilentNext ==
    \/ SilentCallDefaults
    \/ ComputeSmoothFrames
    \/ EnergyFeature
    \/ BandwidthFeature
    \/ Thresholds
    \/ Classify
    \/ ScanFrame
    \/ Flush
    \/ SplitPoints
    \/ BuildSegments
    \/ MergeStep
    \/ Return

SilentSpec == Init /\ [][SilentNext]_vars

\* ------------------------------------------------ IEEE 754 binary64 values
\* Bits of the significand of a double.
SignificandBits == 53

\* Bits in one limb of the long multiplication.
LimbBits == 13

\* The value of a sequence of at most 30 bits, most significant first.
RECURSIVE BitsToInt(_)
BitsToInt(bits) ==
    IF bits = <<>> THEN 0
    ELSE 2 * BitsToInt(SubSeq(bits, 1, Len(bits) - 1)) + bits[Len(bits)]

\* The binary digits of n >= 0 without leading zeros (none for n = 0).
RECURSIVE IntToBits(_)
IntToBits(n) == IF n = 0 THEN <<>> ELSE Append(IntToBits(n \div 2), n % 2)

\* n >= 0 written with exactly `width` binary digits.
Padded(n, width) ==
    LET digits == IntToBits(n)
    IN  [j \in 1..(width - Len(digits)) |-> 0] \o digits

\* The first n limbs of binary digits of r / d behind the binary point,
\* 0 <= r < d < 2^18, and the remainder left after them.
RECURSIVE Expansion(_, _, _)
Expansion(r, d, n) ==
    IF n = 0 THEN [bits |-> <<>>, rem |-> r]
    ELSE LET shifted == r * (2 ^ LimbBits)
             rest == Expansion(shifted % d, d, n - 1)
         IN  [bits |-> Padded(shifted \div d, LimbBits) \o rest.bits,
              rem |-> rest.rem]

\* Limbs that hold the leading zeros behind the binary point of a quotient
\* (at most 18), the 53 bits of the significand and the rounding bit.
QuotientLimbs == 6

\* A positive double: 0.b1 b2 ... b53 (b1 = 1) times 2^point.  Zero has no bits.
FloatZero == [bits |-> <<>>, point |-> 0]

\* Round a positive binary number, given by its digits from the leading 1 on,
\* the position of the binary point behind digit `point`, and whether non-zero
\* digits follow, to 53 significant bits, ties to even.
RoundToDouble(digits, point, more) ==
    LET p == SignificandBits
        kept == [j \in 1..p |-> IF j <= Len(digits) THEN digits[j] ELSE 0]
        half == IF Len(digits) > p THEN digits[p + 1] ELSE 0
        below == more \/ \E j \in (p + 2)..Len(digits) : digits[j] = 1
        up == half = 1 /\ (below \/ kept[p] = 1)
        zeros == {j \in 1..p : kept[j] = 0}
    IN  IF ~up THEN [bits |-> kept, point |-> point]
        ELSE IF zeros = {}
        THEN [bits |-> [j \in 1..p |-> IF j = 1 THEN 1 ELSE 0], point |-> point + 1]
        ELSE LET z == CHOOSE j \in zeros : \A k \in zeros : k <= j
             IN  [bits |-> [j \in 1..p |-> IF j < z THEN kept[j]
                                           ELSE IF j = z THEN 1 ELSE 0],
                  point |-> point]

\* Digits without their leading zeros.
Significant(digits) ==
    LET ones == {j \in 1..Len(digits) : digits[j] = 1}
    IN  IF ones = {} THEN <<>>
        ELSE SubSeq(digits, CHOOSE j \in ones : \A k \in ones : j <= k, Len(digits))

\* a / b in double precision for integers a >= 0, b > 0 (a below 2^31, b below 2^18).
FloatDiv(a, b) ==
    IF a = 0 THEN FloatZero
    ELSE LET whole == IntToBits(a \div b)
             frac == Expansion(a % b, b, QuotientLimbs)
             digits == whole \o frac.bits
             lead == Significant(digits)
         IN  RoundToDouble(lead, Len(whole) - (Len(digits) - Len(lead)),
                           frac.rem # 0)

\* The limbs of a significand, least significant first.
Limbs(bits) ==
    [k \in 1..((Len(bits) + LimbBits - 1) \div LimbBits) |->
        BitsToInt(SubSeq(bits, IF Len(bits) - k * LimbBits + 1 < 1 THEN 1
                               ELSE Len(bits) - k * LimbBits + 1,
                         Len(bits) - (k - 1) * LimbBits))]

\* limbs * n as digits: long multiplication, least significant limb first.
RECURSIVE TimesInt(_, _, _)
TimesInt(limbs, n, carry) ==
    IF limbs = <<>> THEN IntToBits(carry)
    ELSE LET t == Head(limbs) * n + carry
         IN  TimesInt(Tail(limbs), n, t \div (2 ^ LimbBits)) \o
             Padded(t % (2 ^ LimbBits), LimbBits)

\* x * n in double precision for a double x >= 0 and an integer n > 0 below 2^17.
FloatTimesInt(x, n) ==
    IF x = FloatZero THEN FloatZero
    ELSE LET product == TimesInt(Limbs(x.bits), n, 0)
             lead == Significant(product)
         IN  RoundToDouble(lead, x.point + Len(lead) - Len(x.bits), FALSE)

\* int(x) for a double 0 <= x < 2^30: the digits before the binary point.
FloatToInt(x) ==
    IF x = FloatZero \/ x.point <= 0 THEN 0
    ELSE BitsToInt(SubSeq(x.bits, 1, x.point))

\* int(sec * rate) for a time sec >= 0 that is the quotient of a sample
\* offset by the sample rate: the double nearest to the quotient, times the
\* rate, rounded to a double again and cut to a whole number.
SampleOf(sec, rate) ==
    FloatToInt(FloatTimesInt(FloatDiv(sec.num, sec.den), rate))

\* ---------------------------------------------- /api/split: split_and_save
\* Session ids uuid4().hex[:8] can come out as, and session ids a request can
\* carry.
SessionIds == {"s1"}
RequestIds == {"s1", "s2"}

\* Stem of the uploaded file's name.
Stem == "rec"

\* Sample rates of the uploaded recordings.
SavedSampleRates == {48000}

\* Uploaded recordings: silent frames, then frames of the band playing, then a
\* tail of samples that fills no further frame; and one too short for a frame.
SavedQuietFrames == {0, 112}
SavedLoudFrames == {5, 720}
SavedTails == {0, 1}
ShortUploads == {100}

Uploads ==
    { [len |-> DefaultFrameLength + (quiet + loud - 1) * DefaultHopLength + tail,
       frames |-> [j \in 1..(quiet + loud) |->
                      IF j <= quiet THEN [rms |-> 0, bw |-> 0]
                      ELSE [rms |-> 100, bw |-> 4]]] :
        quiet \in SavedQuietFrames, loud \in SavedLoudFrames, tail \in SavedTails }
    \cup {[len |-> short, frames |-> <<>>] : short \in ShortUploads}

\* The decimal digits of n.
RECURSIVE Digits(_)
Digits(n) == IF n < 10 THEN <<n>> ELSE Append(Digits(n \div 10), n % 10)

\* f"{n:02d}": at least two digits.
Format02d(n) == IF n < 10 THEN <<0, n>> ELSE Digits(n)

\* The file name f"{stem}_track{index + 1:02d}.wav"; `suffix` counts the
\* letters b a later split of the track puts before the extension.
TrackName(stem, index) ==
    [stem |-> stem, track |-> Format02d(index + 1), suffix |-> 0]

\* A file holds the samples [held[1], held[2]) of the recording.  audio[start:stop]
\* of such a buffer, for start >= 0 and stop >= 0: both ends are clipped to it.
Slice(held, start, stop) ==
    LET n == held[2] - held[1]
        from == Min(start, n)
        to == Max(from, Min(stop, n))
    IN  <<held[1] + from, held[1] + to>>

\* The mapping f with key k set to v.
Put(f, k, v) == [x \in DOMAIN f \cup {k} |-> IF x = k THEN v ELSE f[x]]

\* POST /api/split up to the call of detect_splits: a fresh session directory
\* (mkdir refuses an existing one), the upload is stored and loaded, and
\* detect_splits runs on it with frame_length and hop_length left at their
\* defaults.
SplitAudio ==
    /\ pc = "idle"
    /\ \E id \in SessionIds \ DOMAIN disk :
          /\ session_id' = id
          /\ disk' = Put(disk, id, Nothing)
    /\ audio' \in Uploads
    /\ sr' \in SavedSampleRates
    /\ min_silence_duration' = RatInt(DefaultMinSilenceDuration)
    /\ min_song_duration' = RatInt(DefaultMinSongDuration)
    /\ frame_length' = DefaultFrameLength
    /\ hop_length' = DefaultHopLength
    /\ written' = 0
    /\ pc' = "frame_to_sec"
    /\ UNCHANGED <<features, scan, split_samples, segments, merged, raised,
                   stdout, previous, response, oauth_tokens, stream, events>>

\* One iteration of `for seg in segments` of split_and_save:
\* audio[int(seg.start_sec * sr):int(seg.end_sec * sr)] is written to
\* f"{stem}_track{seg.index + 1:02d}.wav".
WriteTrack ==
    /\ pc = "done"
    /\ session_id # ""
    /\ written < Len(merged)
    /\ LET seg == merged[written + 1]
           start_sample == SampleOf(seg.start_sec, sr)
           end_sample == SampleOf(seg.end_sec, sr)
       IN  disk' = [disk EXCEPT ![session_id] =
                       Put(@, TrackName(Stem, seg.index),
                           Slice(<<0, audio.len>>, start_sample, end_sample))]
    /\ written' = written + 1
    /\ UNCHANGED <<pc, inputs, features, scan, split_samples, segments, merged,
                   raised, stdout, previous, session_id, response, oauth_tokens,
                   stream, events>>

\* split_and_save has returned: /api/split reads every track back by its
\* name (sf.read raises for a missing file) and answers with the track list.
SplitAudioRespond ==
    /\ pc = "done"
    /\ session_id # ""
    /\ written = Len(merged)
    /\ LET dir == disk[session_id]
           names == [k \in 1..Len(merged) |-> TrackName(Stem, merged[k].index)]
       IN  response' =
              IF \A k \in 1..Len(merged) : names[k] \in DOMAIN dir
              THEN [endpoint |-> "split", status |-> 200, session_id |-> session_id,
                    tracks |-> [k \in 1..Len(merged) |->
                                   [index |-> merged[k].index + 1,
                                    filename |-> names[k],
                                    samples |-> dir[names[k]][2] - dir[names[k]][1]]]]
              ELSE [endpoint |-> "split", status |-> 500]
    /\ pc' = "served"
    /\ UNCHANGED <<inputs, features, scan, split_samples, segments, merged, raised,
                   stdout, previous, disk, session_id, written, oauth_tokens,
                   stream, events>>

\* detect_splits raised: the exception leaves split_and_save and /api/split.
SplitAudioFails ==
    /\ pc = "raised"
    /\ session_id # ""
    /\ response' = [endpoint |-> "split", status |-> 500]
    /\ pc' = "served"
    /\ UNCHANGED <<inputs, features, scan, split_samples, segments, merged, raised,
                   stdout, previous, disk, session_id, written, oauth_tokens,
                   stream, events>>

SaveNext ==
    \/ SplitAudio
    \/ ComputeSmoothFrames
    \/ EnergyFeature
    \/ BandwidthFeature
    \/ Thresholds
    \/ Classify
    \/ ScanFrame
    \/ Flush
    \/ SplitPoints
    \/ BuildSegments
    \/ MergeStep
    \/ Return
    \/ WriteTrack
    \/ SplitAudioRespond
    \/ SplitAudioFails

SaveSpec == Init /\ [][SaveNext]_vars

\* ------------------------------------------------ the HTTP application
\* Samples of an uploaded recording, tracks /api/split cuts it into, and
\* letters b a track name can carry.
RecordingSamples == 3
MaxTracks == 2
MaxSuffix == 2

\* The engine is not running; the handlers below leave its state alone.
engine == <<pc, inputs, features, scan, split_samples, segments, merged, raised,
            stdout, previous, session_id, written>>

\* File names a request can carry.
TrackNames ==
    { [stem |-> Stem, track |-> Format02d(t), suffix |-> b] :
        t \in 1..MaxTracks, b \in 0..MaxSuffix }

\* Sample offsets int(seconds * sr) of a request; crop_end < 0 means the end.
SplitOffsets == -1..(RecordingSamples + 1)
CropStarts == {0, 1}
CropEnds == {-1, 1}

\* Authorisation codes Google hands to the callback, request bodies of
\* /api/upload-drive (with or without the two folder keys), and the two ways
\* a call to a library, to ffmpeg or to Google can end.
Codes == {"c1", "c2"}
Bodies == {"complete", "incomplete"}
Outcomes == {"returns", "raises"}

\* file_path.exists() for WORK_DIR / session / "output" / filename.
Exists(session, filename) ==
    session \in DOMAIN disk /\ filename \in DOMAIN disk[session]

\* The mapping f without key k.
Drop(f, k) == [x \in DOMAIN f \ {k} |-> f[x]]

\* Number of samples a file holds.
Length(held) == held[2] - held[1]

\* Boundary lists split_and_save can cut a recording at.
SavedBoundaries ==
    { b \in UNION {[1..n -> 0..RecordingSamples] : n \in 2..(MaxTracks + 1)} :
        /\ b[1] = 0
        /\ b[Len(b)] = RecordingSamples
        /\ \A k \in 1..(Len(b) - 1) : b[k] <= b[k + 1] }

\* POST /api/split served in one step: a fresh session directory holds one
\* file per segment, named <stem>_track<index + 1>.wav.
SplitAudioServed ==
    /\ \E id \in SessionIds \ DOMAIN disk, b \in SavedBoundaries :
          LET n == Len(b) - 1
              names == [k \in 1..n |-> TrackName(Stem, k - 1)]
              dir == [name \in {names[k] : k \in 1..n} |->
                         LET k == CHOOSE k \in 1..n : names[k] = name
                         IN  Slice(<<0, RecordingSamples>>, b[k], b[k + 1])]
          IN  /\ disk' = Put(disk, id, dir)
              /\ response' =
                    [endpoint |-> "split", status |-> 200, session_id |-> id,
                     tracks |-> [k \in 1..n |->
                                    [index |-> k, filename |-> names[k],
                                     samples |-> Length(dir[names[k]])]]]
    /\ UNCHANGED <<engine, oauth_tokens, stream, events>>

\* POST /api/crop/{session_id}/{filename}.
CropTrack(session, filename, crop_start, crop_end) ==
    /\ IF ~Exists(session, filename)
       THEN /\ response' = [endpoint |-> "crop", status |-> 404]
            /\ UNCHANGED disk
       ELSE LET held == disk[session][filename]
                len == Length(held)
                start_sample == Max(0, Min(crop_start, len))
                end_sample ==
                    Max(start_sample, Min(IF crop_end >= 0 THEN crop_end ELSE len, len))
                cropped == Slice(held, start_sample, end_sample)
            IN  /\ disk' = [disk EXCEPT ![session][filename] = cropped]
                /\ response' = [endpoint |-> "crop", status |-> 200,
                                samples |-> Length(cropped)]
    /\ UNCHANGED <<engine, oauth_tokens, stream, events>>

\* split_sample = max(1, min(split_sample, len(audio) - 1)).
ClampedSplit(split_sample, len) == Max(1, Min(split_sample, len - 1))

\* The name f"{stem}{suffix}.wav" for the shortest suffix b, bb, ... that no
\* file of the directory carries (the stem keeps the letters b of `filename`).
RECURSIVE NewName(_, _, _)
NewName(dir, filename, letters) ==
    LET new_filename == [filename EXCEPT !.suffix = filename.suffix + letters]
    IN  IF new_filename \in DOMAIN dir
        THEN NewName(dir, filename, letters + 1)
        ELSE new_filename

\* POST /api/split-track/{session_id}/{filename} with int(split_at * sr) =
\* split_sample.
SplitTrackEndpoint(session, filename, split_sample) ==
    /\ IF ~Exists(session, filename)
       THEN /\ response' = [endpoint |-> "split-track", status |-> 404]
            /\ UNCHANGED disk
       ELSE LET dir == disk[session]
                held == dir[filename]
                len == Length(held)
                cut == ClampedSplit(split_sample, len)
                part1 == Slice(held, 0, cut)
                part2 == Slice(held, cut, len)
                new_filename == NewName(dir, filename, 1)
            IN  /\ new_filename.suffix <= MaxSuffix
                /\ disk' = [disk EXCEPT ![session] =
                               Put(Put(dir, filename, part1), new_filename, part2)]
                /\ response' =
                      [endpoint |-> "split-track", status |-> 200,
                       track1 |-> [filename |-> filename, samples |-> Length(part1)],
                       track2 |-> [filename |-> new_filename,
                                   samples |-> Length(part2)]]
    /\ UNCHANGED <<engine, oauth_tokens, stream, events>>

\* DELETE /api/track/{session_id}/{filename}.
DeleteTrackEndpoint(session, filename) ==
    /\ disk' = IF Exists(session, filename)
               THEN [disk EXCEPT ![session] = Drop(@, filename)]
               ELSE disk
    /\ response' = [endpoint |-> "track", status |-> 200]
    /\ UNCHANGED <<engine, oauth_tokens, stream, events>>

\* GET /auth/callback?code=..&state=..: flow.fetch_token either raises, and
\* nothing is stored, or yields the credentials stored under `state`.  The
\* access token is the one Google issued for this code to this callback.
AuthCallbackEndpoint(code, state, fetch_token) ==
    /\ IF fetch_token = "raises"
       THEN /\ response' = [endpoint |-> "callback", status |-> 500]
            /\ UNCHANGED oauth_tokens
       ELSE /\ oauth_tokens' =
                  Put(oauth_tokens, state,
                      [access_token |-> [code |-> code, state |-> state]])
            /\ response' = [endpoint |-> "callback", status |-> 200, state |-> state]
    /\ UNCHANGED <<engine, disk, stream, events>>

\* GET /auth/token/{session_id}.
GetTokenEndpoint(session) ==
    /\ response' =
          IF session \notin DOMAIN oauth_tokens
          THEN [endpoint |-> "token", status |-> 401, session_id |-> session,
                authenticated |-> FALSE]
          ELSE [endpoint |-> "token", status |-> 200, session_id |-> session,
                authenticated |-> TRUE,
                access_token |-> oauth_tokens[session].access_token]
    /\ UNCHANGED <<engine, disk, oauth_tokens, stream, events>>

\* Whether name a sorts before name b: the names differ from the track number
\* on, and "." sorts before "b".
NameBefore(a, b) ==
    LET na == 10 * a.track[1] + a.track[2]
        nb == 10 * b.track[1] + b.track[2]
    IN  na < nb \/ (na = nb /\ a.suffix < b.suffix)

\* sorted(output_dir.glob("*.wav")).
RECURSIVE SortedNames(_)
SortedNames(names) ==
    IF names = {} THEN <<>>
    ELSE LET first == CHOOSE a \in names : \A b \in names \ {a} : NameBefore(a, b)
         IN  <<first>> \o SortedNames(names \ {first})

\* POST /api/upload-drive/{session_id}: the body is read first (a missing key
\* raises), then the token is looked up, then the WAV files are listed; the
\* response that streams event_stream is returned last.  One stream is
\* followed at a time.
UploadToDriveEndpoint(session, body) ==
    LET wav_files ==
            IF session \in DOMAIN disk THEN SortedNames(DOMAIN disk[session])
            ELSE <<>>
    IN  /\ IF body = "incomplete"
           THEN /\ response' = [endpoint |-> "upload-drive", status |-> 500,
                                session_id |-> session]
                /\ UNCHANGED <<stream, events>>
           ELSE IF session \notin DOMAIN oauth_tokens
           THEN /\ response' = [endpoint |-> "upload-drive", status |-> 401,
                                session_id |-> session]
                /\ UNCHANGED <<stream, events>>
           ELSE IF wav_files = <<>>
           THEN /\ response' = [endpoint |-> "upload-drive", status |-> 404,
                                session_id |-> session]
                /\ UNCHANGED <<stream, events>>
           ELSE /\ stream.pc \in {"none", "closed"}
                /\ stream' = [pc |-> "start", session_id |-> session,
                              token_data |-> oauth_tokens[session],
                              wav_files |-> wav_files, i |-> 0]
                /\ events' = <<>>
                /\ response' = [endpoint |-> "upload-drive", status |-> 200,
                                session_id |-> session]
        /\ UNCHANGED <<engine, disk, oauth_tokens>>

\* event_stream up to its first yield: the three imports (an exception here
\* leaves the generator, it is outside the try), then the credentials, the
\* Drive service and the subfolder (an exception here is reported), then the
\* start event.
StreamStart ==
    /\ stream.pc = "start"
    /\ \E imports \in Outcomes, setup \in Outcomes :
          IF imports = "raises"
          THEN /\ stream' = [stream EXCEPT !.pc = "closed"]
               /\ UNCHANGED events
          ELSE IF setup = "raises"
          THEN /\ stream' = [stream EXCEPT !.pc = "closed"]
               /\ events' = Append(events, [type |-> "error"])
          ELSE /\ stream' = [stream EXCEPT !.pc = "files"]
               /\ events' = Append(events, [type |-> "start",
                                            total |-> Len(stream.wav_files)])
    /\ UNCHANGED <<engine, disk, oauth_tokens, response>>

\* One iteration of `for i, wav_path in enumerate(wav_files)`: ffmpeg with
\* check=True raises for a file that is gone, the upload can raise, and the
\* MP3 file is removed again before the progress event.
StreamFile ==
    /\ stream.pc = "files"
    /\ stream.i < Len(stream.wav_files)
    /\ \E upload \in Outcomes :
          IF ~Exists(stream.session_id, stream.wav_files[stream.i + 1])
             \/ upload = "raises"
          THEN /\ stream' = [stream EXCEPT !.pc = "closed"]
               /\ events' = Append(events, [type |-> "error"])
          ELSE /\ stream' = [stream EXCEPT !.i = stream.i + 1]
               /\ events' = Append(events, [type |-> "progress",
                                            current |-> stream.i + 1,
                                            total |-> Len(stream.wav_files)])
    /\ UNCHANGED <<engine, disk, oauth_tokens, response>>

\* The loop is over: the done event.
StreamDone ==
    /\ stream.pc = "files"
    /\ stream.i = Len(stream.wav_files)
    /\ stream' = [stream EXCEPT !.pc = "closed"]
    /\ events' = Append(events, [type |-> "done"])
    /\ UNCHANGED <<engine, disk, oauth_tokens, response>>

CropTrackRequest ==
    \E session \in RequestIds, filename \in TrackNames,
       crop_start \in CropStarts, crop_end \in CropEnds :
        CropTrack(session, filename, crop_start, crop_end)

SplitTrack ==
    \E session \in RequestIds, filename \in TrackNames, split_sample \in SplitOffsets :
        SplitTrackEndpoint(session, filename, split_sample)

DeleteTrack ==
    \E session \in RequestIds, filename \in TrackNames :
        DeleteTrackEndpoint(session, filename)

AuthCallback ==
    \E code \in Codes, state \in RequestIds, fetch_token \in Outcomes :
        AuthCallbackEndpoint(code, state, fetch_token)

GetToken == \E session \in RequestIds : GetTokenEndpoint(session)

UploadToDrive ==
    \E session \in RequestIds, body \in Bodies : UploadToDriveEndpoint(session, body)

\* The track editor: a recording is split, its tracks are cropped, split
\* again and deleted.
TrackNext ==
    \/ SplitAudioServed
    \/ CropTrackRequest
    \/ SplitTrack
    \/ DeleteTrack

TrackSpec == Init /\ [][TrackNext]_vars

\* The upload to Google Drive: a recording is split, sessions are authorised,
\* tracks are uploaded and deleted meanwhile.
UploadNext ==
    \/ SplitAudioServed
    \/ DeleteTrack
    \/ AuthCallback
    \/ GetToken
    \/ UploadToDrive
    \/ StreamStart
    \/ StreamFile
    \/ StreamDone

UploadSpec == Init /\ [][UploadNext]_vars

\* ---------------------------------------------------------------- claims
\* detect_splits has returned `merged`.
Returned == pc = "done"

\* The call has ended, by return or by exception.
Finished == pc \in {"done", "raised"}

TotalDuration == Rat(audio.len, sr)

Zero == RatInt(0)

RatLe(a, b) == ~RatLt(b, a)

\* Two half-open intervals [start, end) share a point.
Overlap(a, b) ==
    /\ RatLt(a.start_sec, a.end_sec) /\ RatLt(b.start_sec, b.end_sec)
    /\ RatLt(a.start_sec, b.end_sec) /\ RatLt(b.start_sec, a.end_sec)

Durations(out) == [k \in 1..Len(out) |-> out[k].duration_sec]

\* C1 (stated as claimed): whenever detect_splits returns, the segments tile
\* [0, total_duration) exactly: the first starts at 0, the last ends at
\* total_samples / sample_rate, consecutive segments meet (no gap), every
\* segment lies inside [0, total_duration], no two segments overlap, and the
\* durations sum to total_duration.
CoverageTiling ==
    Returned =>
        /\ merged # <<>>
        /\ merged[1].start_sec = Zero
        /\ merged[Len(merged)].end_sec = TotalDuration
        /\ \A k \in 1..(Len(merged) - 1) : merged[k].end_sec = merged[k + 1].start_sec
        /\ \A k \in 1..Len(merged) :
              /\ RatLe(Zero, merged[k].start_sec)
              /\ RatLe(merged[k].end_sec, TotalDuration)
        /\ \A k, l \in 1..Len(merged) : k # l => ~Overlap(merged[k], merged[l])
        /\ SumRat(Durations(merged)) = TotalDuration

\* C2: in the returned list every segment ends where the next one starts, and
\* the index fields are 0, 1, ..., len-1 in list order.
OrderingInvariant ==
    Returned =>
        /\ \A k \in 1..(Len(merged) - 1) : merged[k].end_sec = merged[k + 1].start_sec
        /\ \A k \in 1..Len(merged) : merged[k].index = k - 1

\* C2 witness: a returned list of two segments after a provisional segment in
\* the middle was absorbed, so the provisional indices 0, 2 had to be renumbered.
OrderingWitness ==
    /\ Returned
    /\ Len(segments) = 3
    /\ Len(merged) = 2
    /\ merged[2].start_sec = segments[3].start_sec

\* C3 (stated as claimed): once merging completes, every returned segment but
\* the first lasts at least min_song_duration.
MinimumLength ==
    Returned =>
        \A k \in 2..Len(merged) : RatGe(merged[k].duration_sec, min_song_duration)

\* C4 (stated as claimed, for a valid sample rate): every returned segment has
\* start_sec < end_sec.
StartBeforeEnd ==
    (Returned /\ sr > 0) =>
        \A k \in 1..Len(merged) : RatLt(merged[k].start_sec, merged[k].end_sec)

\* The effect the merge step must have on the output list for segment seg.
MergeStepEffect(out, seg, out2) ==
    IF out # <<>> /\ RatLt(seg.duration_sec, min_song_duration)
    THEN /\ Len(out2) = Len(out)
         /\ out2[Len(out)].end_sec = seg.end_sec
         /\ out2[Len(out)].duration_sec = RatSub(seg.end_sec, out[Len(out)].start_sec)
         /\ out2[Len(out)].start_sec = out[Len(out)].start_sec
         /\ \A k \in 1..(Len(out) - 1) : out2[k] = out[k]
    ELSE out2 = Append(out, seg)

\* Scenario C in small: three provisional segments, the middle one short and
\* the last one long enough, give two segments, the first ending where the
\* short one ended.
ShortMiddleAbsorbed ==
    (/\ Returned
     /\ Len(segments) = 3
     /\ RatLt(segments[2].duration_sec, min_song_duration)
     /\ RatGe(segments[3].duration_sec, min_song_duration))
    => /\ Len(merged) = 2
       /\ merged[1].start_sec = segments[1].start_sec
       /\ merged[1].end_sec = segments[2].end_sec
       /\ merged[2].end_sec = segments[3].end_sec

\* C5: each iteration of the merge loop either extends the last accepted
\* segment over a short provisional segment (its end and duration change, its
\* start and all earlier segments do not, the list does not grow) or appends
\* the provisional segment as it is; a short middle segment between two others
\* leaves two segments.
MergeStepClaim ==
    /\ [][(pc = "merge" /\ i < Len(segments) /\ i' = i + 1)
            => MergeStepEffect(merged, segments[i + 1], merged')]_vars
    /\ []ShortMiddleAbsorbed

\* C5 witness: bursts of 1 s / 2 s / 3 s at min_song_duration = 3 s: the 2 s
\* one was absorbed by the first one and two segments were returned.
MergeStepWitness ==
    /\ Returned
    /\ sr > 0
    /\ Len(segments) = 3
    /\ RatLt(Zero, segments[1].duration_sec)
    /\ RatLt(segments[2].duration_sec, min_song_duration)
    /\ RatGe(segments[3].duration_sec, min_song_duration)
    /\ Len(merged) = 2
    /\ merged[1].end_sec = segments[2].end_sec

\* C6 (stated as claimed): the first returned segment starts at 0 and ends at
\* or after the first split point, whatever its duration.
FirstSegmentKept ==
    Returned =>
        /\ merged # <<>>
        /\ merged[1].start_sec = Zero
        /\ split_samples # <<>> =>
              RatGe(merged[1].end_sec, Rat(split_samples[1], sr))

\* The quiet-run scan has finished.
Scanned == pc \in {"split", "segments", "merge", "done"}

\* Maximal runs [s, e) of consecutive 'not playing' frames (0-based).
MaximalRuns ==
    LET n == Len(is_not_playing)
    IN  { r \in (0..n) \X (0..n) :
            /\ r[1] < r[2]
            /\ \A f \in r[1]..(r[2] - 1) : is_not_playing[f + 1]
            /\ (r[1] = 0 \/ ~is_not_playing[r[1]])
            /\ (r[2] = n \/ ~is_not_playing[r[2] + 1]) }

\* (end_frame - start_frame) * hop_length / sample_rate >= min_silence_duration
LongEnough(r) ==
    RatGe(Rat((r[2] - r[1]) * hop_length, sr), min_silence_duration)

RegionSet == {quiet_regions[j] : j \in 1..Len(quiet_regions)}

SplitsChosen == pc \in {"segments", "merge", "done"}

\* C8: the split offset of a retained region [s, e) is ((s + e) // 2) * hop
\* and lies inside the run: s * hop <= split < e * hop.
SplitPlacement ==
    SplitsChosen =>
        \A j \in 1..Len(split_samples) :
            LET s == quiet_regions[j][1]
                e == quiet_regions[j][2]
            IN  /\ split_samples[j] = ((s + e) \div 2) * hop_length
                /\ s * hop_length <= split_samples[j]
                /\ split_samples[j] < e * hop_length

\* C8 witness: split points chosen for a one-frame run and for a longer run
\* of odd length, where the midpoint frame is rounded down.
SplitPlacementWitness ==
    /\ SplitsChosen
    /\ \E j \in 1..Len(quiet_regions) :
          quiet_regions[j][2] - quiet_regions[j][1] = 1
    /\ \E j \in 1..Len(quiet_regions) :
          quiet_regions[j][2] - quiet_regions[j][1] = 3

\* C9 (stated as claimed): a buffer with frame count <= 0 ends the call with
\* InvalidInputError and never with a segment list.
TooShortBufferRaisesInvalidInput ==
    (/\ Finished
     /\ WellFormed(frame_length, hop_length)
     /\ NFrames(audio.len, frame_length, hop_length) <= 0) =>
        /\ pc = "raised"
        /\ raised = "InvalidInputError"

\* C10 (stated as claimed): a zero or negative sample rate ends the call with
\* InvalidInputError and never with a segment list.
BadSampleRateRaisesInvalidInput ==
    (Finished /\ sr <= 0) =>
        /\ pc = "raised"
        /\ raised = "InvalidInputError"

\* A call is under way or has ended.
Called == pc # "idle"

\* The energy stage has produced rms_db and rms_db_smooth.
EnergyDone ==
    pc \in {"bw", "thresholds", "classify", "scan", "split", "segments", "merge",
            "done"}

\* The bandwidth stage has produced bw and bw_smooth.
BandwidthDone ==
    pc \in {"thresholds", "classify", "scan", "split", "segments", "merge", "done"}

\* C11 (stated as claimed): under a malformed configuration (frame_length <= 0
\* or hop_length <= 0) the call ends with a configuration error before any
\* feature has been computed, and never returns a segment list.
MalformedConfigFailsFast ==
    (Called /\ ~WellFormed(frame_length, hop_length)) =>
        /\ pc \in {"frame_to_sec", "raised"}
        /\ pc = "raised" => (raised = "ConfigurationError" /\ rms_db = <<>>)

\* The buffer is all-zero, has at least one frame, and the call is otherwise
\* valid (positive sample rate, well-formed configuration).
SilentCall ==
    /\ Called
    /\ sr > 0
    /\ WellFormed(frame_length, hop_length)
    /\ NFrames(audio.len, frame_length, hop_length) >= 1
    /\ \A j \in 1..Len(audio.frames) : audio.frames[j].rms = 0

\* C12: for an all-zero buffer with at least one frame the call raises no
\* exception, amplitude_to_db gives every frame -80 dB and
\* compute_spectral_bandwidth gives every frame bandwidth 0.
SilentBufferFloors ==
    SilentCall =>
        /\ pc # "raised"
        /\ EnergyDone =>
              rms_db = [j \in 1..NFrames(audio.len, frame_length, hop_length) |->
                           RatInt(-80)]
        /\ BandwidthDone =>
              bw = [j \in 1..NFrames(audio.len, frame_length, hop_length) |->
                       RatInt(0)]

\* C12 witness: a call on an all-zero buffer of several frames has returned.
SilentBufferWitness ==
    /\ SilentCall
    /\ Returned
    /\ Len(rms_db) >= 3
    /\ Len(bw) >= 3

\* C13: a fully silent buffer under the default configuration yields exactly
\* one segment spanning [0, total_duration]: no quiet region is retained,
\* whatever the zero-padded smoothing of the -80 dB sequence makes of the
\* frames, and the call does not raise.
SilentBufferOneSegment ==
    SilentCall =>
        /\ pc # "raised"
        /\ Scanned => quiet_regions = <<>>
        /\ Returned =>
              /\ Len(merged) = 1
              /\ merged[1].start_sec = Zero
              /\ merged[1].end_sec = TotalDuration

\* C13 witness: the call has returned for a silent buffer whose interior
\* frames fell below the energy threshold raised by the padded edges.
SilentBufferOneSegmentWitness ==
    /\ SilentCall
    /\ Returned
    /\ Len(merged) = 1
    /\ \E j \in 1..Len(is_not_playing) : is_not_playing[j]
    /\ Len(is_not_playing) > 100

\* Field names found in the records of the returned list.
ReturnedFields == UNION {DOMAIN merged[k] : k \in 1..Len(merged)}

\* C14 (stated as claimed): the value handed back to the caller exposes both
\* thresholds, both loud-region means and the retained quiet regions, also
\* when one segment is returned.
DiagnosticsReturned ==
    Returned =>
        {"energy_thresh", "bw_thresh", "loud_mean", "bw_loud_mean",
         "quiet_regions"} \subseteq ReturnedFields

\* |a - b| <= 1 / (2 * scale)
Near(a, b, scale) ==
    /\ RatLe(RatSub(a, b), Rat(1, 2 * scale))
    /\ RatLe(RatSub(b, a), Rat(1, 2 * scale))

\* The printed region line agrees with the region to the printed precision.
RegionPrinted(line, number) ==
    LET region == quiet_regions[number]
    IN  /\ line.line = "region"
        /\ line.number = number
        /\ Near(line.t_start, RatMul(RatInt(region[1]), Rat(hop_length, sr)), 10)
        /\ Near(line.t_end, RatMul(RatInt(region[2]), Rat(hop_length, sr)), 10)

\* C14 (amended): the returned list holds segment records only; the
\* thresholds and loud-region means (to 0.1 dB and to 1 Hz), the number of
\* retained quiet regions and each region's times (to 0.1 s) are printed on
\* standard output, whatever the final segment count.
DiagnosticsPrinted ==
    Returned =>
        /\ ReturnedFields = {"index", "start_sec", "end_sec", "duration_sec"}
        /\ Len(stdout) = 3 + Len(quiet_regions)
        /\ stdout[1].line = "energy"
        /\ Near(stdout[1].thresh, energy_thresh, 10)
        /\ Near(stdout[1].mean, loud_mean, 10)
        /\ stdout[2].line = "bandwidth"
        /\ Near(stdout[2].thresh, bw_thresh, 1)
        /\ Near(stdout[2].mean, bw_loud_mean, 1)
        /\ stdout[3] = [line |-> "count", count |-> Len(quiet_regions)]
        /\ \A j \in 1..Len(quiet_regions) : RegionPrinted(stdout[3 + j], j)

\* C14 witness: one segment is returned with no split found, and a
\* threshold that is not a multiple of 0.1 dB has been printed.
DiagnosticsPrintedWitness ==
    /\ Returned
    /\ Len(merged) = 1
    /\ quiet_regions = <<>>
    /\ Len(stdout) = 3
    /\ stdout[1].thresh # energy_thresh

BoundarySamples ==
    {0, audio.len} \cup {split_samples[j] : j \in 1..Len(split_samples)}

\* Each offset converted to seconds by one division by the sample rate.
BoundarySeconds == {Rat(b, sr) : b \in BoundarySamples}

\* The merge loop is running or has ended.
Merging == pc \in {"merge", "done"}

\* C16: every start_sec and end_sec of the merged list is b / sr for a
\* boundary sample offset b, and merging only reuses boundary values of the
\* provisional segments.
BoundariesRoundTrip ==
    Merging =>
        \A k \in 1..Len(merged) :
            /\ merged[k].start_sec \in BoundarySeconds
            /\ merged[k].end_sec \in BoundarySeconds
            /\ \E j \in 1..Len(segments) :
                  merged[k].start_sec = segments[j].start_sec
            /\ \E j \in 1..Len(segments) :
                  merged[k].end_sec = segments[j].end_sec

\* C16 witness: a list with several segments, one of them absorbed some
\* provisional segments, with a boundary that is not a whole second.
BoundariesRoundTripWitness ==
    /\ Returned
    /\ Len(merged) >= 2
    /\ Len(merged) < Len(segments)
    /\ \E k \in 1..Len(merged) : merged[k].end_sec.den > 1

\* C17: no step of a call, returning or raising, changes the caller's buffer
\* or sample rate.
BufferUnchanged == [][Called => (audio' = audio /\ sr' = sr)]_vars

\* C17 witness: a call that read several non-silent frames of the buffer has
\* ended by raising.
BufferUnchangedWitness ==
    /\ pc = "raised"
    /\ rms_db # <<>>
    /\ Len(audio.frames) >= 2
    /\ \E j \in 1..Len(audio.frames) : audio.frames[j].rms = 100

\* C18 (stated as claimed): smooth returns as many values as it is given,
\* for every window size, and its input itself for a window below 2; so both
\* smoothed sequences have one entry per frame.
SmoothKeepsLength ==
    /\ EnergyDone =>
          /\ Len(rms_db_smooth) = Len(rms_db)
          /\ Len(rms_db_smooth) = NFrames(audio.len, frame_length, hop_length)
          /\ smooth_frames < 2 => rms_db_smooth = rms_db
    /\ BandwidthDone =>
          /\ Len(bw_smooth) = Len(bw)
          /\ Len(bw_smooth) = NFrames(audio.len, frame_length, hop_length)
          /\ smooth_frames < 2 => bw_smooth = bw

\* smooth_frames has been computed.
WindowChosen == pc \notin {"idle", "frame_to_sec", "raised"}

ClaimedFrames == 1 + FloorDiv(audio.len - frame_length, hop_length)

\* C20: for a buffer of N >= frame_length samples and hop_length > 0 both
\* extractors give 1 + floor((N - frame_length) / hop_length) values; frame j
\* reads the frame_length samples from j * hop_length on, all inside the
\* buffer, and one more frame would not fit.
FramingArithmetic ==
    (Called /\ WellFormed(frame_length, hop_length) /\ audio.len >= frame_length) =>
        /\ EnergyDone => Len(rms_db) = ClaimedFrames
        /\ BandwidthDone => Len(bw) = ClaimedFrames
        /\ EnergyDone =>
              /\ \A j \in 0..(Len(rms_db) - 1) :
                    /\ FrameStart(j, hop_length) = j * hop_length
                    /\ FrameStart(j, hop_length) + frame_length <= audio.len
                    /\ FrameSamples(audio.len, j, frame_length, hop_length) =
                          frame_length
              /\ Len(rms_db) >= 1
              /\ (Len(rms_db) - 1) * hop_length + frame_length <= audio.len
              /\ Len(rms_db) * hop_length + frame_length > audio.len

\* C20 witness: both feature sequences computed for a buffer whose length
\* leaves a remainder the last frame does not reach.
FramingArithmeticWitness ==
    /\ BandwidthDone
    /\ frame_length = 2
    /\ hop_length = 2
    /\ audio.len = 5
    /\ Len(rms_db) = 2
    /\ Len(bw) = 2

\* The frames have been classified.
Classified == pc \in {"scan", "split", "segments", "merge", "done"}

\* x lies strictly below the threshold.
Below(x, thresh) == x # NaN /\ thresh # NaN /\ x.num * thresh.den < thresh.num * x.den

\* C21: frame j is marked 'not playing' exactly when its smoothed energy lies
\* strictly below energy_thresh or its smoothed bandwidth lies strictly below
\* bw_thresh; a frame whose values are at or above both thresholds, equality
\* included, is playing.
FrameClassification ==
    Classified =>
        /\ Len(is_not_playing) = Len(rms_db_smooth)
        /\ Len(is_not_playing) = Len(bw_smooth)
        /\ \A j \in 1..Len(is_not_playing) :
              /\ is_not_playing[j] <=>
                    (\/ Below(rms_db_smooth[j], energy_thresh)
                     \/ Below(bw_smooth[j], bw_thresh))
              /\ (/\ rms_db_smooth[j] = energy_thresh \/ bw_smooth[j] = bw_thresh
                  /\ ~Below(rms_db_smooth[j], energy_thresh)
                  /\ ~Below(bw_smooth[j], bw_thresh)) => ~is_not_playing[j]

\* C21 witness: one buffer with a playing frame whose bandwidth equals a
\* non-zero threshold and a frame that is not playing by its bandwidth alone.
FrameClassificationWitness ==
    /\ Classified
    /\ RatLt(Zero, bw_thresh)
    /\ \E j \in 1..Len(is_not_playing) :
          /\ bw_smooth[j] = bw_thresh
          /\ ~is_not_playing[j]
    /\ \E j \in 1..Len(is_not_playing) :
          /\ is_not_playing[j]
          /\ Below(bw_smooth[j], bw_thresh)
          /\ ~Below(rms_db_smooth[j], energy_thresh)

\* The duration filter applied to a run [start, end) that is being closed.
Closed(regions, start, end) ==
    IF LongEnough(<<start, end>>) THEN Append(regions, <<start, end>>) ELSE regions

\* One step of the RegionDetector with an open run closed at frame endFrame
\* after the last frame: the scan starts in PLAYING; after frame i the state
\* is QUIET exactly when frame i is 'not playing'; PLAYING -> QUIET records
\* the run start, QUIET -> PLAYING closes the run as [run_start, i) under the
\* duration filter, and no other step touches the region list.
RegionDetectorStep(endFrame) ==
    /\ (pc = "classify" /\ pc' = "scan") =>
          /\ ~in_quiet'
          /\ quiet_regions' = <<>>
          /\ i' = 0
    /\ (pc = "scan" /\ pc' = "scan") =>
          /\ i' = i + 1
          /\ in_quiet' = is_not_playing[i + 1]
          /\ (~in_quiet /\ in_quiet') =>
                (quiet_start' = i /\ quiet_regions' = quiet_regions)
          /\ (in_quiet /\ ~in_quiet') =>
                quiet_regions' = Closed(quiet_regions, quiet_start, i)
          /\ (in_quiet = in_quiet') =>
                (quiet_start' = quiet_start /\ quiet_regions' = quiet_regions)
    /\ (pc = "scan" /\ pc' = "split") =>
          /\ i = Len(is_not_playing)
          /\ quiet_regions' =
                IF in_quiet THEN Closed(quiet_regions, quiet_start, endFrame)
                ELSE quiet_regions

\* C22 (stated as claimed, for a positive sample rate and a well-formed
\* configuration): the RegionDetector steps as described, and a run still
\* open after the last frame is closed at the number of frames of the buffer.
RegionDetectorClosesAtFrameCount ==
    [][(sr > 0 /\ WellFormed(frame_length, hop_length)) =>
          RegionDetectorStep(NFrames(audio.len, frame_length, hop_length))]_vars

\* The RegionDetector as the code runs it: an open run is closed at the
\* number of classified entries, len(is_not_playing).
RegionDetectorClosesAtClassified ==
    [][RegionDetectorStep(Len(is_not_playing))]_vars

\* The scan is running or has finished.
Scanning == pc = "scan" \/ Scanned

\* Entries the scan has classified so far (all of them once it has finished).
Seen == IF pc = "scan" THEN i ELSE Len(is_not_playing)

\* C23: the retained quiet regions are listed in frame order and never
\* overlap: each region [s, e) has s < e, holds 'not playing' frames only, is
\* maximal (frame s - 1, if any, and frame e, if any, are playing), and each
\* region ends before the next one starts.
RegionsOrdered ==
    Scanning =>
        /\ \A k \in 1..Len(quiet_regions) :
              LET s == quiet_regions[k][1]
                  e == quiet_regions[k][2]
              IN  /\ 0 <= s /\ s < e /\ e <= Seen
                  /\ \A f \in s..(e - 1) : is_not_playing[f + 1]
                  /\ s > 0 => ~is_not_playing[s]
                  /\ e < Len(is_not_playing) => ~is_not_playing[e + 1]
        /\ \A k \in 1..(Len(quiet_regions) - 1) :
              quiet_regions[k][2] < quiet_regions[k + 1][1]

\* C23 witness: under a positive min_silence_duration two regions of several
\* frames are retained, the first from frame 0 on and the second up to the
\* final frame.
RegionsOrderedWitness ==
    /\ Scanned
    /\ RatLt(Zero, min_silence_duration)
    /\ Len(quiet_regions) = 2
    /\ quiet_regions[1][1] = 0
    /\ quiet_regions[1][2] >= 2
    /\ quiet_regions[2][2] = Len(is_not_playing)

\* The sequence s of integers in ascending order.
SortedInts(s) ==
    CHOOSE t \in [1..Len(s) -> {s[j] : j \in 1..Len(s)}] :
        /\ \A j \in 1..(Len(s) - 1) : t[j] <= t[j + 1]
        /\ \A x \in {s[j] : j \in 1..Len(s)} :
              Cardinality({j \in 1..Len(s) : t[j] = x}) =
              Cardinality({j \in 1..Len(s) : s[j] = x})

\* C24 (stated as claimed, for a positive sample rate and a well-formed
\* configuration): the boundary list built without sorting equals
\* [0] + sorted(split offsets) + [total_samples]; the split offsets are
\* strictly increasing and each lies in 0..total_samples, so the boundary
\* list is non-decreasing.
BoundariesSorted ==
    (SplitsChosen /\ sr > 0 /\ WellFormed(frame_length, hop_length)) =>
        LET boundaries == Boundaries(split_samples, audio.len)
        IN  /\ boundaries = <<0>> \o SortedInts(split_samples) \o <<audio.len>>
            /\ \A j \in 1..(Len(split_samples) - 1) :
                  split_samples[j] < split_samples[j + 1]
            /\ \A j \in 1..Len(split_samples) :
                  0 <= split_samples[j] /\ split_samples[j] <= audio.len
            /\ \A j \in 1..(Len(boundaries) - 1) : boundaries[j] <= boundaries[j + 1]

\* The split offsets come out in strictly increasing order, from 0 on.
SplitsIncreasing ==
    (SplitsChosen /\ sr > 0 /\ WellFormed(frame_length, hop_length)) =>
        /\ split_samples = SortedInts(split_samples)
        /\ \A j \in 1..(Len(split_samples) - 1) :
              split_samples[j] < split_samples[j + 1]
        /\ \A j \in 1..Len(split_samples) : 0 <= split_samples[j]

\* The thresholds have just been chosen; no later step changes them or the
\* smoothed sequences.
Thresholded == pc = "classify"

\* t holds the values of s in ascending order.
AscendingOf(t, s) ==
    /\ Len(t) = Len(s)
    /\ \A j \in 1..(Len(t) - 1) : RatLe(t[j], t[j + 1])
    /\ \A j \in 1..Len(s) :
          Cardinality({k \in 1..Len(s) : s[k] = s[j]}) =
          Cardinality({k \in 1..Len(t) : t[k] = s[j]})

\* The values of s from position floor(0.75 * n) on (0-based), n = Len(s).
TopQuarter(s) ==
    [k \in 1..(Len(s) - (3 * Len(s)) \div 4) |-> s[(3 * Len(s)) \div 4 + k]]

\* C25: with at least one frame, energy_thresh is the mean of the top quarter
\* sorted[floor(0.75 * n):] of the sorted smoothed energies minus 15 dB and
\* bw_thresh is 0.4 times the same mean of the smoothed bandwidths; the slice
\* is never empty, and energy_thresh lies strictly below the highest smoothed
\* energy.
ThresholdEstimation ==
    (Thresholded /\ WellFormed(frame_length, hop_length)) =>
        LET energies == Sort(rms_db_smooth)
            widths == Sort(bw_smooth)
        IN  /\ Len(rms_db_smooth) >= 1
            /\ AscendingOf(energies, rms_db_smooth)
            /\ AscendingOf(widths, bw_smooth)
            /\ Len(TopQuarter(energies)) >= 1
            /\ Len(TopQuarter(widths)) >= 1
            /\ loud_mean # NaN /\ bw_loud_mean # NaN
            /\ RatMul(loud_mean, RatInt(Len(TopQuarter(energies)))) =
                  SumRat(TopQuarter(energies))
            /\ RatMul(bw_loud_mean, RatInt(Len(TopQuarter(widths)))) =
                  SumRat(TopQuarter(widths))
            /\ RatAdd(energy_thresh, RatInt(15)) = loud_mean
            /\ RatMul(bw_thresh, RatInt(10)) = RatMul(bw_loud_mean, RatInt(4))
            /\ \E j \in 1..Len(rms_db_smooth) :
                  /\ \A k \in 1..Len(rms_db_smooth) :
                        RatLe(rms_db_smooth[k], rms_db_smooth[j])
                  /\ RatLt(energy_thresh, rms_db_smooth[j])

\* C25 witness: thresholds chosen from six smoothed values, the top quarter
\* being the two highest, which differ from each other and from the rest.
ThresholdEstimationWitness ==
    /\ Thresholded
    /\ WellFormed(frame_length, hop_length)
    /\ Len(rms_db_smooth) = 6
    /\ LET energies == Sort(rms_db_smooth)
       IN  /\ energies[5] # energies[6]
           /\ energies[4] # energies[5]
           /\ loud_mean = Mean(<<energies[5], energies[6]>>)
    /\ RatLt(Zero, bw_thresh)

\* Provisional segments among the first n that open a segment of the output:
\* the first one, and every later one lasting at least min_song_duration.
Accepted(n) ==
    {j \in 1..n : j = 1 \/ RatGe(segments[j].duration_sec, min_song_duration)}

\* Provisional segments the merge loop has gone through.
Judged == IF pc = "merge" THEN i ELSE Len(segments)

\* C26: the output holds one segment per accepted provisional segment (the
\* first, and each later one whose own duration is >= min_song_duration), in
\* order; it starts where that provisional segment starts and ends where the
\* last provisional segment before the next accepted one ends, so all short
\* segments that follow are absorbed into it; and a step of the loop leaves
\* every segment but the last of the output as it was.
OnePassMerge ==
    [][Merging' =>
          /\ Len(merged') = Cardinality(Accepted(Judged)')
          /\ \A a \in Accepted(Judged)' :
                LET k == Cardinality({b \in Accepted(Judged)' : b <= a})
                    later == {b \in Accepted(Judged)' : b > a}
                    last == IF later = {} THEN Judged'
                            ELSE (CHOOSE b \in later : \A c \in later : b <= c) - 1
                IN  /\ merged'[k].start_sec = segments'[a].start_sec
                    /\ merged'[k].end_sec = segments'[last].end_sec
          /\ (pc = "merge" /\ pc' = "merge") =>
                \A k \in 1..(Len(merged) - 1) : merged'[k] = merged[k]]_vars

\* C26 witness: two consecutive short provisional segments were absorbed into
\* the accepted segment before them, and a later segment was accepted.
OnePassMergeWitness ==
    /\ Returned
    /\ sr > 0
    /\ Len(segments) >= 4
    /\ Len(merged) >= 2
    /\ \E j \in 2..(Len(segments) - 1) :
          /\ j \notin Accepted(Len(segments))
          /\ (j + 1) \notin Accepted(Len(segments))

\* /api/split has answered with the list of tracks.
Saved == pc = "served" /\ response.status = 200

\* Sample range split_and_save computes for segment k of the returned list.
StartSample(k) == SampleOf(merged[k].start_sec, sr)

EndSample(k) == SampleOf(merged[k].end_sec, sr)

\* The file written for segment k of the returned list.
TrackFile(k) == disk[session_id][TrackName(Stem, k - 1)]

\* Samples held by the files of the first k segments together.
RECURSIVE SamplesUpTo(_)
SamplesUpTo(k) ==
    IF k = 0 THEN 0 ELSE SamplesUpTo(k - 1) + TrackFile(k)[2] - TrackFile(k)[1]

\* One file per returned segment, named <stem>_track<index + 1>.wav with two
\* digits, which is the name /api/split reads back.
OneFilePerSegment ==
    /\ DOMAIN disk[session_id] = {TrackName(Stem, k - 1) : k \in 1..Len(merged)}
    /\ Cardinality(DOMAIN disk[session_id]) = Len(merged)
    /\ \A k \in 1..Len(merged) :
          /\ TrackName(Stem, k - 1) = [stem |-> Stem, track |-> <<0, k>>, suffix |-> 0]
          /\ response.tracks[k].filename = TrackName(Stem, k - 1)

\* The sample ranges of consecutive segments meet.
RangesContiguous ==
    /\ StartSample(1) = 0
    /\ \A k \in 1..(Len(merged) - 1) : EndSample(k) = StartSample(k + 1)

\* The files, put together in index order, hold the samples 0, 1, ... of the
\* recording without a gap.
FilesInOrder ==
    \A k \in 1..Len(merged) :
        \/ TrackFile(k)[1] = TrackFile(k)[2]
        \/ /\ TrackFile(k)[1] = SamplesUpTo(k - 1)
           /\ TrackFile(k)[2] = SamplesUpTo(k)

\* C27 (stated as claimed): split_and_save writes exactly one WAV file per
\* returned segment under the name /api/split reads back; the sample ranges
\* [int(start_sec * sr), int(end_sec * sr)) of consecutive segments are
\* contiguous and cover the whole loaded buffer; the files concatenated in
\* index order reproduce the input samples.
TracksCoverRecording ==
    Saved =>
        /\ OneFilePerSegment
        /\ RangesContiguous
        /\ EndSample(Len(merged)) = audio.len
        /\ FilesInOrder
        /\ SamplesUpTo(Len(merged)) = audio.len

\* What holds of the files whatever the length of the recording: one file per
\* segment under the expected name, contiguous ranges from 0 on, and files
\* that follow one another without a gap.
TracksContiguous ==
    Saved => (OneFilePerSegment /\ RangesContiguous /\ FilesInOrder)

\* At most the last sample of the recording is missing from the files.
TracksLoseAtMostOneSample ==
    Saved =>
        /\ SamplesUpTo(Len(merged)) \in {audio.len - 1, audio.len}
        /\ EndSample(Len(merged)) \in {audio.len - 1, audio.len}

\* part1 followed by part2 is the run of samples `held`.
Joined(part1, part2, held) ==
    /\ part1[1] = held[1]
    /\ part1[2] = part2[1]
    /\ part2[2] = held[2]
    /\ part1[1] <= part1[2]
    /\ part2[1] <= part2[2]

\* What a split of an existing track does to the files, the cut apart: the
\* track keeps part1, part2 goes to a name stem + b, bb, ... that no file
\* carried, and every other file is left as it was.
SplitWrites(session, filename, split_sample) ==
    LET dir == disk[session]
        held == dir[filename]
        cut == ClampedSplit(split_sample, Length(held))
        after == disk'[session]
        new_filename == response'.track2.filename
    IN  /\ response'.status = 200
        /\ response'.track1.filename = filename
        /\ new_filename \notin DOMAIN dir
        /\ new_filename.stem = filename.stem
        /\ new_filename.track = filename.track
        /\ new_filename.suffix > filename.suffix
        /\ DOMAIN after = DOMAIN dir \cup {new_filename}
        /\ after[filename] = Slice(held, 0, cut)
        /\ Joined(after[filename], after[new_filename], held)
        /\ \A other \in DOMAIN dir \ {filename} : after[other] = dir[other]
        /\ \A elsewhere \in DOMAIN disk \ {session} : disk'[elsewhere] = disk[elsewhere]
        /\ DOMAIN disk' = DOMAIN disk

\* The cut lies strictly inside the track.
CutInside(session, filename, split_sample) ==
    LET len == Length(disk[session][filename])
        cut == ClampedSplit(split_sample, len)
    IN  1 <= cut /\ cut <= len - 1

\* C28 (stated as claimed): every request to the split-track endpoint, after
\* any sequence of earlier splits, crops and deletions: for an existing track
\* the cut is clamped to 1 <= split_sample <= len - 1, the track is rewritten
\* with part1 and part2 is written so that part1 followed by part2 is the
\* original run of samples, under a name stem + one or more b that did not
\* exist in the directory, no other file being touched; for a missing file
\* the answer is 404 and nothing is written.
SplitTrackConserves ==
    [][\A session \in RequestIds, filename \in TrackNames,
          split_sample \in SplitOffsets :
          SplitTrackEndpoint(session, filename, split_sample) =>
              IF Exists(session, filename)
              THEN /\ CutInside(session, filename, split_sample)
                   /\ SplitWrites(session, filename, split_sample)
              ELSE response'.status = 404 /\ disk' = disk]_vars

\* The same for the tracks of two samples or more, and without the clamp for
\* the shorter ones.
SplitTrackConservesFromTwoSamples ==
    [][\A session \in RequestIds, filename \in TrackNames,
          split_sample \in SplitOffsets :
          response'.endpoint = "split-track"
          /\ SplitTrackEndpoint(session, filename, split_sample) =>
              IF Exists(session, filename)
              THEN /\ Length(disk[session][filename]) >= 2 =>
                          CutInside(session, filename, split_sample)
                   /\ SplitWrites(session, filename, split_sample)
              ELSE response'.status = 404 /\ disk' = disk]_vars

\* An upload stream was started.
Streaming == stream.pc # "none"

\* The stream has ended.
StreamClosed == stream.pc = "closed"

\* Number of events of one type sent so far.
EventCount(type) == Cardinality({j \in 1..Len(events) : events[j].type = type})

\* The events sent so far are at most one start carrying the number of WAV
\* files listed at request time, then progress events numbered 1, 2, ... up
\* to that number, then at most one done after all of them; an error event
\* is the only one of its kind and nothing follows it.
EventsInOrder ==
    LET total == Len(stream.wav_files)
    IN  \A j \in 1..Len(events) :
            /\ events[j].type \in {"start", "progress", "done", "error"}
            /\ events[j].type = "start" => j = 1 /\ events[j].total = total
            /\ events[j].type = "progress" =>
                  /\ j >= 2
                  /\ events[1].type = "start"
                  /\ events[j].current = j - 1
                  /\ events[j].current <= total
                  /\ events[j].total = total
            /\ events[j].type = "done" => j = Len(events) /\ j = total + 2
            /\ events[j].type = "error" => j = Len(events)

\* A stream that ended sent done or error as its last event.
EndsWithDoneOrError ==
    StreamClosed =>
        /\ Len(events) >= 1
        /\ events[Len(events)].type \in {"done", "error"}
        /\ EventCount("done") + EventCount("error") = 1

\* C29 (stated as claimed): the events of an upload stream are at most one
\* start (total = number of WAV files found at request time), then progress
\* events with current = 1, 2, ..., total in increasing order, then exactly one
\* done as the last event; if a step raises, also for a track deleted between
\* two yields, exactly one error event is sent, it is the last one and no
\* done or progress follows it.
UploadEventOrdering ==
    Streaming => (EventsInOrder /\ EndsWithDoneOrError)

\* The ordering alone, whichever way the stream ends.
UploadEventsInOrder == Streaming => EventsInOrder

\* The three imports of event_stream went through.
Imported == stream.pc = "files" \/ Len(events) >= 1

\* A stream that got past its imports ends with one done or one error.
ImportedStreamEndsWithDoneOrError ==
    (Streaming /\ Imported) => EndsWithDoneOrError

\* auth_callback has completed with this state: tokens are stored by a
\* completed callback only (TokensFromCallback) and never removed.
Authorised(session) == session \in DOMAIN oauth_tokens

\* A step stores or replaces a token only if it is a callback that completed
\* with the key as its state, and the token is the one issued to it.
TokensFromCallback ==
    \A session \in DOMAIN oauth_tokens' :
        (~Authorised(session) \/ oauth_tokens'[session] # oauth_tokens[session]) =>
            /\ response'.endpoint = "callback"
            /\ response'.status = 200
            /\ response'.state = session
            /\ oauth_tokens'[session].access_token.state = session

\* get_token answers authenticated with the session's own token if the
\* session is authorised and 401 otherwise.
TokenAnswer(session) ==
    IF Authorised(session)
    THEN /\ response'.status = 200
         /\ response'.authenticated
         /\ response'.access_token = oauth_tokens[session].access_token
         /\ response'.access_token.state = session
    ELSE response'.status = 401 /\ ~response'.authenticated

\* upload_to_drive starts a stream only for an authorised session, with that
\* session's token.
StreamOnlyForAuthorised(session) ==
    stream' # stream =>
        /\ Authorised(session)
        /\ response'.status = 200
        /\ stream'.session_id = session
        /\ stream'.token_data.access_token.state = session

\* upload_to_drive answers 401 and starts nothing for a session that is not
\* authorised.
UploadRefused(session) ==
    ~Authorised(session) =>
        /\ response'.status = 401
        /\ stream' = stream
        /\ events' = events

\* C30 (stated as claimed): for any sequence of requests, get_token answers
\* authenticated = true and upload_to_drive starts a stream only if
\* auth_callback completed before with the session id as its state; otherwise
\* both answer 401 and no upload work is started; the token stored for one
\* session id is never returned for another.
TokenGating ==
    [][/\ TokensFromCallback
       /\ \A session \in RequestIds :
             GetTokenEndpoint(session) => TokenAnswer(session)
       /\ \A session \in RequestIds, body \in Bodies :
             UploadToDriveEndpoint(session, body) =>
                 /\ StreamOnlyForAuthorised(session)
                 /\ UploadRefused(session)]_vars

\* The same for the upload requests whose body carries both folder keys;
\* the others still start no stream.
TokenGatingCompleteBody ==
    [][/\ TokensFromCallback
       /\ \A session \in RequestIds :
             GetTokenEndpoint(session) => TokenAnswer(session)
       /\ \A session \in RequestIds, body \in Bodies :
             UploadToDriveEndpoint(session, body) =>
                 /\ StreamOnlyForAuthorised(session)
                 /\ body = "complete" => UploadRefused(session)
                 /\ body # "complete" => stream' = stream /\ events' = events]_vars

====
